---- MODULE Spec2Model ----
(***************************************************************************)
(* Model of CustomResource (src/src/index.ts, the generic version, lines   *)
(* 1-520): one instance handling one CloudFormation lifecycle event.       *)
(*                                                                         *)
(* Every action is one callback of the Node event loop (a macrotask with   *)
(* the promise continuations it triggers), so actions are atomic with      *)
(* respect to each other, as the single-threaded loop makes them.          *)
(*                                                                         *)
(* Strings built by template literals are sequences of their parts, e.g.   *)
(* `${type} completed successfully` is <<type, " completed successfully">>.*)
(***************************************************************************)
EXTENDS Integers, Sequences, FiniteSets, TLC

VARIABLES
    event,               \* this.event (readonly)
    pc,                  \* "scheduled": constructor queued handle(); "handled": handle() ran
    timeoutTimer,        \* this.timeoutTimer: "unarmed", "pending", "fired", "cleared"
    handlerState,        \* promise of the selected handler: "notInvoked", "pending",
                         \*   "fulfilled", "rejected", "threw" (synchronous throw)
    settled,             \* the value the handler rejected with or threw (NoError if none)
    calls,               \* number of invocations of each of the three handler functions
    requests,            \* the https requests initiated so far, with their transport state
    callbacks,           \* invocations of the host completion callback, in order
    uncaught,            \* exceptions/rejections that escaped to the event loop
    alive,               \* FALSE once the runtime has terminated the process
    order,               \* history: the race participants in the order they ran
    physicalResourceId,  \* this.physicalResourceId
    responseData,        \* this.responseData
    noEcho,              \* this.noEcho
    logger,              \* this.logger
    hist,                \* history: the arguments of the public setters called so far and
                         \*   the loggers handed to the handler
    read,                \* last result of reading this.properties.<key> (NoRead if none)
    context,             \* this.context: logStreamName and the value of
                         \*   getRemainingTimeInMillis() at dispatch
    logged,              \* history: the log entries emitted so far (by a StandardLogger
                         \*   to the console, by another logger received), in order
    peer,                \* the fields of the other CustomResource instance of the
                         \*   process (NoPeer if there is none)
    wire,                \* a body text as it goes on the wire: the headers of
                         \*   the PUT and the bytes written (NoWire if none)
    chain                \* the chained API (src/index.ts): the three function
                         \*   queues and the progress of the selected one

vars == <<event, pc, timeoutTimer, handlerState, settled, calls, requests,
          callbacks, uncaught, alive, order, physicalResourceId, responseData,
          noEcho, logger, hist, read, context, logged, peer, wire, chain>>

lifecycleVars == <<pc, timeoutTimer, handlerState, settled, calls, requests,
                   callbacks, uncaught, alive, order, physicalResourceId,
                   responseData, noEcho, logger, hist, context, logged, peer, wire,
                   chain>>

----------------------------------------------------------------------------
(* Bounds and input domains *)

NumVals == 2

\* most calls of the public setters in one invocation
MaxCalls == 2

\* JavaScript's undefined; no property value, id or URL of the model equals it
Undefined == "<undefined>"

Vals == {ToString(i) : i \in 1..NumVals}

Keys == {"name", "value"}

\* "Patch" stands for any RequestType other than the three the switch knows
RequestTypes == {"Create", "Update", "Delete", "Patch"}

WellFormedURL == "https://example/cb"

MalformedURL == "not a url"

ResponseURLs == {Undefined, WellFormedURL, MalformedURL}

EventPhysicalIds == {Undefined, "", "phys-1"}

logStreamName == "2026/11/03/[$LATEST]stream"

PropertyMaps == [Keys -> Vals \cup {Undefined}]

NoProperties == [k \in Keys |-> Undefined]

\* OldResourceProperties?: absent, or a property map
OldPropertyMaps ==
    {[present |-> FALSE, props |-> NoProperties]}
        \cup {[present |-> TRUE, props |-> p] : p \in PropertyMaps}

Events(types, urls, ids, props, olds) ==
    [RequestType : types, ResponseURL : urls, PhysicalResourceId : ids,
     StackId : {"stack-1"}, RequestId : {"req-1"}, LogicalResourceId : {"logical-1"},
     ResourceProperties : props, OldResourceProperties : olds]

----------------------------------------------------------------------------
(* Values thrown, rejected with, or passed to the callback (err: unknown) *)

NoError == [kind |-> "none", message |-> "", circular |-> FALSE]

\* circular: JSON.stringify(err) throws (circular structure, BigInt member)
ErrorValues ==
    {[kind |-> "Error", message |-> "boom", circular |-> FALSE],
     [kind |-> "Error", message |-> "boom", circular |-> TRUE],
     [kind |-> "string", message |-> "oops", circular |-> FALSE],
     [kind |-> "object", message |-> "{\"code\":42}", circular |-> FALSE],
     [kind |-> "object", message |-> "", circular |-> TRUE]}

ResponseURLMissingError ==
    [kind |-> "Error", message |-> "ResponseURL missing", circular |-> FALSE]

InvalidURLError == [kind |-> "Error", message |-> "Invalid URL", circular |-> FALSE]

CircularError ==
    [kind |-> "Error", message |-> "Converting circular structure to JSON",
     circular |-> FALSE]

TransportError == [kind |-> "Error", message |-> "ECONNRESET", circular |-> FALSE]

\* response.statusCode of a completed PUT: one 2xx, one 4xx, one 5xx
StatusCodes == {200, 403, 500}

HandlerNames == {"createFunction", "updateFunction", "deleteFunction"}

NoRead == [key |-> Undefined, value |-> Undefined, before |-> Undefined,
           changed |-> FALSE]

----------------------------------------------------------------------------
(* The host's context *)

Last(seq) == seq[Len(seq)]

\* the values context.getRemainingTimeInMillis() returns at dispatch: below,
\* at and above the margin, and the longest budget the host grants (15 min)
RemainingTimes == {1, 500, 1000, 1001, 3000, 900000}

LogStreamNames == {logStreamName, "2026/11/04/[$LATEST]other"}

Contexts ==
    [logStreamName : LogStreamNames, remainingTimeInMillis : RemainingTimes]

DefaultContext == [logStreamName |-> logStreamName, remainingTimeInMillis |-> 3000]

----------------------------------------------------------------------------
(* Loggers *)

\* enum LogLevel
LogLevel == [error |-> 0, warn |-> 1, info |-> 2, debug |-> 3]

Methods == {"error", "warn", "info", "debug", "log"}

\* StandardLogger with `level || LogLevel.warn`: a falsy level is replaced too
StandardLogger_or(args) ==
    [level |-> IF args = <<>> \/ args[1] = 0 THEN LogLevel.warn ELSE args[1]]

\* new StandardLogger(...args): this.level = level ?? LogLevel.warn
StandardLogger(args) == [level |-> IF args = <<>> THEN LogLevel.warn ELSE args[1]]

\* the guard of each StandardLogger method, `if (this.level < LogLevel.x) return`;
\* log() calls info()
emits(self, method) ==
    CASE method = "error" -> ~(self.level < LogLevel.error)
      [] method = "warn" -> ~(self.level < LogLevel.warn)
      [] method = "info" -> ~(self.level < LogLevel.info)
      [] method = "debug" -> ~(self.level < LogLevel.debug)
      [] method = "log" -> ~(self.level < LogLevel.info)

\* implementations of the Logger interface whose one method throws
ThrowingLoggers == {"ThrowingInfoLogger", "ThrowingDebugLogger", "ThrowingErrorLogger"}

throws(logger_, method) ==
    \/ logger_ = "ThrowingInfoLogger" /\ method \in {"info", "log"}
    \/ logger_ = "ThrowingDebugLogger" /\ method = "debug"
    \/ logger_ = "ThrowingErrorLogger" /\ method = "error"

LoggerError == [kind |-> "Error", message |-> "logger failed", circular |-> FALSE]

\* loggers built by the caller with new StandardLogger(level)
LevelLoggers ==
    {"StandardLogger(error)", "StandardLogger(warn)", "StandardLogger(info)",
     "StandardLogger(debug)"}

\* "StandardLogger" is new StandardLogger(), as the constructor creates it
StandardLoggers == {"StandardLogger"} \cup LevelLoggers

\* the arguments a StandardLogger was constructed with
constructorArgs(logger_) ==
    CASE logger_ = "StandardLogger(error)" -> <<LogLevel.error>>
      [] logger_ = "StandardLogger(warn)" -> <<LogLevel.warn>>
      [] logger_ = "StandardLogger(info)" -> <<LogLevel.info>>
      [] logger_ = "StandardLogger(debug)" -> <<LogLevel.debug>>
      [] OTHER -> <<>>

\* a StandardLogger applies its filter; every other logger takes each message
\* it is handed
records(logger_, method) ==
    IF logger_ \in StandardLoggers
    THEN emits(StandardLogger(constructorArgs(logger_)), method)
    ELSE TRUE

\* the console method a StandardLogger method writes with
consoleMethod(method) == IF method = "log" THEN "info" ELSE method

\* logger_.method(message): throws, is filtered out, or leaves an entry
logCall(st, logger_, method, message) ==
    IF throws(logger_, method) THEN [st EXCEPT !.threw = LoggerError]
    ELSE IF records(logger_, method)
         THEN [st EXCEPT !.logged =
                  Append(@, [logger |-> logger_, method |-> consoleMethod(method),
                             message |-> message])]
         ELSE st

\* console.log(err) in handleError: written whatever the logger is
consoleLog(st, err) ==
    [st EXCEPT !.logged =
        Append(@, [logger |-> "console", method |-> "log", message |-> <<err.message>>])]

\* JSON.stringify(err, null, 2): an Error has no enumerable own property
stringifyError(err) ==
    IF err.kind = "Error" THEN <<"{}">>
    ELSE IF err.kind = "string" THEN <<"\"", err.message, "\"">>
    ELSE <<err.message>>

----------------------------------------------------------------------------
(* The property view: propertiesProxyHandler *)

\* JSON.stringify of a property value: undefined stays undefined, a string is quoted
JSONstringify(v) == IF v = Undefined THEN <<Undefined>> ELSE <<"\"", v, "\"">>

\* propertyValue with the empty string for a key the properties do not hold
propertyValue_empty(ev, propertyKey) ==
    IF ev.ResourceProperties[propertyKey] = Undefined THEN ""
    ELSE ev.ResourceProperties[propertyKey]

\* target[propertyKey]
propertyValue(ev, propertyKey) == ev.ResourceProperties[propertyKey]

\* this.event.OldResourceProperties?.[propertyKey]
propertyBefore(ev, propertyKey) ==
    IF ev.OldResourceProperties.present
    THEN ev.OldResourceProperties.props[propertyKey]
    ELSE Undefined

\* propertyChanged with the new value compared unserialised
propertyChanged_raw(ev, propertyKey) ==
    JSONstringify(propertyBefore(ev, propertyKey)) # <<propertyValue(ev, propertyKey)>>

\* JSON.stringify(before) !== JSON.stringify(newValue)
propertyChanged(ev, propertyKey) ==
    JSONstringify(propertyBefore(ev, propertyKey))
        # JSONstringify(propertyValue(ev, propertyKey))

----------------------------------------------------------------------------
(* sendResponse and handleError as state transformers.  st is the part of   *)
(* the state they touch, [timeoutTimer, requests, logged], plus threw: the  *)
(* value thrown out of the call (NoError if it returned).                   *)

\* new URL(this.event.ResponseURL!) returns for a well-formed URL and throws otherwise
URLParses(url) == url = WellFormedURL

\* clearTimeout that cancels nothing
clearTimeout_skipped(timer) == timer

\* clearTimeout(this.timeoutTimer): cancels a pending timer, otherwise a no-op
clearTimeout(timer) == IF timer = "pending" THEN "cleared" ELSE timer

\* pointer that says Details for a failure as well
pointer_details(responseStatus) == "Details"

\* ${responseStatus === 'FAILED' ? 'Full error' : 'Details'}
pointer(responseStatus) == IF responseStatus = "FAILED" THEN "Full error" ELSE "Details"

\* ResponseBody with the name property consulted before the stored id
ResponseBody_namefirst(responseStatus, responseData_) ==
    [Status |-> responseStatus,
     Reason |-> responseData_ \o
                <<" | ", pointer(responseStatus),
                  " in CloudWatch ", context.logStreamName>>,
     PhysicalResourceId |->
         IF event.ResourceProperties["name"] # Undefined
         THEN event.ResourceProperties["name"]
         ELSE IF physicalResourceId # Undefined THEN physicalResourceId
              ELSE context.logStreamName,
     StackId |-> event.StackId,
     RequestId |-> event.RequestId,
     LogicalResourceId |-> event.LogicalResourceId,
     Data |-> responseData,
     NoEcho |-> noEcho]

\* ResponseBody with StackId and RequestId taken from each other's field
ResponseBody_swapped(responseStatus, responseData_) ==
    [Status |-> responseStatus,
     Reason |-> responseData_ \o
                <<" | ", pointer(responseStatus),
                  " in CloudWatch ", context.logStreamName>>,
     PhysicalResourceId |->
         IF physicalResourceId # Undefined THEN physicalResourceId
         ELSE IF event.ResourceProperties["name"] # Undefined
              THEN event.ResourceProperties["name"]
              ELSE context.logStreamName,
     StackId |-> event.RequestId,
     RequestId |-> event.StackId,
     LogicalResourceId |-> event.LogicalResourceId,
     Data |-> responseData,
     NoEcho |-> noEcho]

\* the body object built by sendResponse
ResponseBody(responseStatus, responseData_) ==
    [Status |-> responseStatus,
     Reason |-> responseData_ \o
                <<" | ", pointer(responseStatus),
                  " in CloudWatch ", context.logStreamName>>,
     PhysicalResourceId |->
         IF physicalResourceId # Undefined THEN physicalResourceId
         ELSE IF event.ResourceProperties["name"] # Undefined
              THEN event.ResourceProperties["name"]
              ELSE context.logStreamName,
     StackId |-> event.StackId,
     RequestId |-> event.RequestId,
     LogicalResourceId |-> event.LogicalResourceId,
     Data |-> responseData,
     NoEcho |-> noEcho]

\* sendResponse: log, clear the timer, log, build the body, parse the URL, log,
\* hand the request to the transport; a throw ends it where it happens
sendResponse(st, responseStatus, responseData_) ==
    LET s1 == logCall(st, logger, "debug", <<"Clearing timeout timer">>)
        s2 == logCall([s1 EXCEPT !.timeoutTimer = clearTimeout(@)], logger, "info",
                      <<"Sending response ", responseStatus, ":">>)
        s3 == logCall(s2, logger, "debug", <<"SENDING RESPONSE...">>)
    IN  IF s1.threw # NoError THEN s1
        ELSE IF s2.threw # NoError THEN s2
        ELSE IF ~URLParses(event.ResponseURL) THEN [s2 EXCEPT !.threw = InvalidURLError]
        ELSE IF s3.threw # NoError THEN s3
        ELSE [s3 EXCEPT !.requests =
                 Append(@, [body |-> ResponseBody(responseStatus, responseData_),
                            state |-> "inflight", statusCode |-> 0])]

\* the errorMessage chosen by handleError
errorMessage(err) ==
    IF err.kind = "Error" THEN <<err.message>>
    ELSE IF err.kind = "string" THEN <<err.message>>
    ELSE <<"Unknown error: ", err.message>>

\* handleError that reports the failure as a success
handleError_success(st, err) == sendResponse(st, "SUCCESS", errorMessage(err))

\* console.log(err); logger.error(JSON.stringify(err, null, 2)); sendResponse.
\* JSON.stringify throws before anything is sent when err does not serialise
handleError(st, err) ==
    LET s0 == consoleLog(st, err)
        s1 == logCall(s0, logger, "error", stringifyError(err))
    IN  IF err.circular THEN [s0 EXCEPT !.threw = CircularError]
        ELSE IF s1.threw # NoError THEN s1
        ELSE sendResponse(s1, "FAILED", errorMessage(err))

\* f(); on throw: handleError(thrown)  -- the shape of try/catch and of .catch()
catchWithHandleError(r) ==
    IF r.threw = NoError THEN r
    ELSE handleError([r EXCEPT !.threw = NoError], r.threw)

\* handlerFor with the Update case wired to the create handler
handlerFor_swapped(requestType) ==
    CASE requestType = "Create" -> "createFunction"
      [] requestType = "Update" -> "createFunction"
      [] requestType = "Delete" -> "deleteFunction"
      [] OTHER -> Undefined

\* the switch of handle(): the handler function for a request type
handlerFor(requestType) ==
    CASE requestType = "Create" -> "createFunction"
      [] requestType = "Update" -> "updateFunction"
      [] requestType = "Delete" -> "deleteFunction"
      [] OTHER -> Undefined

\* unexpectedRequestType without the interpolated value
unexpectedRequestType_novalue(requestType) == <<"Unexpected request type">>

\* the reason handle() gives for a request type outside its switch
unexpectedRequestType(requestType) == <<"Unexpected request type: ", requestType>>

\* completedSuccessfully without the interpolated request type
completedSuccessfully_notype(requestType) == <<"Request", " completed successfully">>

\* the reason handle() gives when the handler's promise fulfilled
completedSuccessfully(requestType) == <<requestType, " completed successfully">>

\* timedOutMessage with the text of the log line instead
timedOutMessage_logtext == <<"Timeout FAILURE!">>

\* the reason the timer callback gives
timedOutMessage == <<"Function timed out">>

\* timerDelay without the safety margin
timerDelay_nomargin(remaining) == remaining

\* the delay timeout() asks for: this.context.getRemainingTimeInMillis() - 1000
timerDelay(remaining) == remaining - 1000

\* setTimeout(handler, delay): the runtime waits 1 ms for a delay outside
\* 1..2^31-1, and the delay itself otherwise
setTimeout(delay) ==
    [delay |-> delay,
     after |-> IF delay >= 1 /\ delay <= 2147483647 THEN delay ELSE 1]

\* executorPromise that resolves whatever the executor does
executorPromise_settled(threw) == "fulfilled"

\* executorPromise whose executor resolves after sending
executorPromise_resolved(threw) == IF threw = NoError THEN "fulfilled" ELSE "rejected"

\* new Promise(() => this.sendResponse(...)): the executor takes neither resolve
\* nor reject, so the promise stays pending unless the executor throws
executorPromise(threw) == IF threw = NoError THEN "pending" ELSE "rejected"

FunctionTimedOutError ==
    [kind |-> "Error", message |-> "Function timed out", circular |-> FALSE]

\* ResponseURLMissing with the check dropped
ResponseURLMissing_unchecked(ev) == FALSE

\* typeof this.event.ResponseURL === 'undefined'
ResponseURLMissing(ev) == ev.ResponseURL = Undefined

\* an exception or rejection nobody handles reaches the runtime, which may
\* terminate the process (Lambda, Node >= 15) or only report it
Escapes(e) ==
    IF e = NoError
    THEN UNCHANGED <<uncaught, alive>>
    ELSE /\ uncaught' = Append(uncaught, e)
         /\ alive' \in BOOLEAN

----------------------------------------------------------------------------
(* Construction *)

NoHistory == [physicalIds |-> <<>>, added |-> <<>>, noEchos |-> <<>>,
              loggers |-> <<>>, passed |-> <<>>, timers |-> <<>>, called |-> <<>>]

\* the fields of one instance, as its constructor leaves them
Instance(ev, ctx) ==
    [event |-> ev,
     context |-> ctx,
     pc |-> "constructed",
     timeoutTimer |-> "unarmed",
     handlerState |-> "notInvoked",
     settled |-> NoError,
     calls |-> [h \in HandlerNames |-> 0],
     order |-> <<>>,
     physicalResourceId |->
         IF ev.PhysicalResourceId \notin {Undefined, ""}
         THEN ev.PhysicalResourceId ELSE Undefined,
     responseData |-> <<>>,
     noEcho |-> FALSE,
     logger |-> "StandardLogger",
     hist |-> NoHistory,
     read |-> NoRead]

NoEvent ==
    [RequestType |-> "Create", ResponseURL |-> Undefined,
     PhysicalResourceId |-> Undefined, StackId |-> "", RequestId |-> "",
     LogicalResourceId |-> "",
     ResourceProperties |-> NoProperties,
     OldResourceProperties |-> [present |-> FALSE, props |-> NoProperties]]

NoPeer == [Instance(NoEvent, DefaultContext) EXCEPT !.pc = "none"]

NoWire == [text |-> <<>>, headers |-> [contentType |-> "", contentLength |-> 0],
           written |-> 0]

\* createFunctions, updateFunctions, deleteFunctions = [] and nothing started
NoChain ==
    [createFunctions |-> <<>>, updateFunctions |-> <<>>, deleteFunctions |-> <<>>,
     started |-> <<>>, resolved |-> <<>>, running |-> FALSE]

\* the fields the public setters do not touch, as the constructor leaves them
Untouched(ev, ctx) ==
    /\ event = ev
    /\ context = ctx
    /\ logged = <<>>
    /\ wire = NoWire
    /\ chain = NoChain
    /\ timeoutTimer = "unarmed"
    /\ handlerState = "notInvoked"
    /\ settled = NoError
    /\ calls = [h \in HandlerNames |-> 0]
    /\ requests = <<>>
    /\ callbacks = <<>>
    /\ uncaught = <<>>
    /\ alive = TRUE
    /\ order = <<>>
    /\ read = NoRead

\* the fields as the constructor leaves them, in a process with one instance
Fields(ev) ==
    /\ Untouched(ev, DefaultContext)
    /\ physicalResourceId = Instance(ev, DefaultContext).physicalResourceId
    /\ responseData = <<>>
    /\ noEcho = FALSE
    /\ logger = "StandardLogger"
    /\ hist = NoHistory
    /\ peer = NoPeer

\* new CustomResource(...) has returned and the caller's synchronous code is
\* still running; handle() is queued with setTimeout(..., 0)
NewCustomResource(ev) == Fields(ev) /\ pc = "constructed"

\* the caller has returned to the event loop without configuring the instance
Constructed(ev) == Fields(ev) /\ pc = "scheduled"

\* events of the lifecycle model: only the name property varies
LifecycleEvents ==
    Events(RequestTypes, ResponseURLs, EventPhysicalIds,
           {p \in PropertyMaps : p["value"] = Undefined},
           {o \in OldPropertyMaps : ~o.present})

Init == \E ev \in LifecycleEvents : Constructed(ev)

----------------------------------------------------------------------------
(* Actions *)

\* handleRunnable when handle() is called inside the constructor
handleRunnable_immediate(pc_) == pc_ \in {"constructed", "scheduled"}

\* the callback of setTimeout(() => this.handle()) runs once the synchronous
\* code that called the constructor has returned to the event loop
handleRunnable(pc_) == pc_ = "scheduled"

\* passedLogger with a fresh default logger instead of the field
passedLogger_default(logger_) == "StandardLogger"

\* the logger argument of handlerFunction(this, this.logger)
passedLogger(logger_) == logger_

\* handle(), run by the timer the constructor set.  sync is what the selected
\* handler throws before returning its promise (NoError: it returns one).
handle ==
    /\ alive
    /\ handleRunnable(pc)
    /\ pc' = "handled"
    /\ UNCHANGED <<event, callbacks, physicalResourceId, responseData, noEcho,
                   logger, read, context, peer, wire, chain>>
    /\ IF ResponseURLMissing(event)
       THEN /\ Escapes(ResponseURLMissingError)
            /\ UNCHANGED <<timeoutTimer, handlerState, settled, calls, requests, order,
                           hist, logged>>
       ELSE LET received == logCall([timeoutTimer |-> timeoutTimer,
                                     requests |-> requests, logged |-> logged,
                                     threw |-> NoError],
                                    logger, "info", <<"REQUEST RECEIVED:">>)
                armed == [received EXCEPT !.timeoutTimer = "pending"]
                timers == Append(hist.timers,
                                 setTimeout(timerDelay(context.remainingTimeInMillis)))
                h == handlerFor(event.RequestType)
            IN  IF received.threw # NoError
                THEN /\ Escapes(received.threw)
                     /\ UNCHANGED <<timeoutTimer, handlerState, settled, calls,
                                    requests, order, hist, logged>>
                ELSE IF h = Undefined
                THEN LET r == catchWithHandleError(
                                  sendResponse(armed, "FAILED",
                                      unexpectedRequestType(event.RequestType)))
                     IN  /\ timeoutTimer' = r.timeoutTimer
                         /\ requests' = r.requests
                         /\ logged' = r.logged
                         /\ hist' = [hist EXCEPT !.timers = timers]
                         /\ Escapes(r.threw)
                         /\ UNCHANGED <<handlerState, settled, calls, order>>
                ELSE \E sync \in {NoError} \cup ErrorValues :
                        LET r == IF sync = NoError THEN armed
                                 ELSE handleError(armed, sync)
                        IN  /\ calls' = [calls EXCEPT ![h] = @ + 1]
                            /\ hist' = [hist EXCEPT
                                           !.passed = Append(@, passedLogger(logger)),
                                           !.timers = timers]
                            /\ handlerState' = IF sync = NoError THEN "pending" ELSE "threw"
                            /\ settled' = sync
                            /\ order' = IF sync = NoError THEN order
                                        ELSE Append(order, "threw")
                            /\ timeoutTimer' = r.timeoutTimer
                            /\ requests' = r.requests
                            /\ logged' = r.logged
                            /\ Escapes(r.threw)

\* the handler's promise fulfils: .then(() => sendResponse('SUCCESS', ...)).catch(handleError)
handlerFulfils ==
    /\ alive
    /\ handlerState = "pending"
    /\ handlerState' = "fulfilled"
    /\ order' = Append(order, "fulfil")
    /\ LET st == [timeoutTimer |-> timeoutTimer, requests |-> requests,
                  logged |-> logged, threw |-> NoError]
           r == catchWithHandleError(
                    sendResponse(st, "SUCCESS", completedSuccessfully(event.RequestType)))
       IN  /\ timeoutTimer' = r.timeoutTimer
           /\ requests' = r.requests
           /\ logged' = r.logged
           /\ Escapes(r.threw)
    /\ UNCHANGED <<event, pc, settled, calls, callbacks, physicalResourceId,
                   responseData, noEcho, logger, hist, read, context, peer, wire, chain>>

\* the handler's promise rejects with err: .catch((err) => handleError(err))
handlerRejects ==
    /\ alive
    /\ handlerState = "pending"
    /\ \E err \in ErrorValues :
          /\ handlerState' = "rejected"
          /\ settled' = err
          /\ order' = Append(order, "reject")
          /\ LET st == [timeoutTimer |-> timeoutTimer, requests |-> requests,
                        logged |-> logged, threw |-> NoError]
                 r == handleError(st, err)
             IN  /\ timeoutTimer' = r.timeoutTimer
                 /\ requests' = r.requests
                 /\ logged' = r.logged
                 /\ Escapes(r.threw)
    /\ UNCHANGED <<event, pc, calls, callbacks, physicalResourceId, responseData,
                   noEcho, logger, hist, read, context, peer, wire, chain>>

\* the timer callback of timeout(): logger.error, then a promise whose executor
\* calls sendResponse and never resolves, so the .then() callback never runs; a
\* throw of sendResponse rejects the promise and reaches .catch(handleError)
timeoutHandler ==
    /\ alive
    /\ timeoutTimer = "pending"
    /\ order' = Append(order, "timeout")
    /\ LET st == [timeoutTimer |-> "fired", requests |-> requests, logged |-> logged,
                  threw |-> NoError]
           l == logCall(st, logger, "error", <<"Timeout FAILURE!">>)
           s == sendResponse(l, "FAILED", timedOutMessage)
           r == IF l.threw # NoError THEN l ELSE catchWithHandleError(s)
       IN  /\ timeoutTimer' = r.timeoutTimer
           /\ requests' = r.requests
           /\ logged' = r.logged
           /\ callbacks' =
                  IF l.threw = NoError /\ executorPromise(s.threw) = "fulfilled"
                  THEN Append(callbacks,
                              [error |-> FunctionTimedOutError, result |-> Undefined])
                  ELSE callbacks
           /\ Escapes(r.threw)
    /\ UNCHANGED <<event, pc, handlerState, settled, calls, physicalResourceId,
                   responseData, noEcho, logger, hist, read, context, peer, wire, chain>>

\* responseCallback that reports a 4xx or 5xx status as an error
responseCallback_checked(statusCode) ==
    IF statusCode >= 400
    THEN [error |-> [kind |-> "Error", message |-> "HTTP error", circular |-> FALSE],
          result |-> Undefined]
    ELSE [error |-> NoError, result |-> "done"]

\* the arguments of this.callback(null, 'done') in the response callback
responseCallback(statusCode) == [error |-> NoError, result |-> "done"]

\* https.request's response callback, for a response with any status code:
\* logger.debug, then this.callback(null, 'done')
requestResponds ==
    /\ alive
    /\ \E i \in 1..Len(requests), statusCode \in StatusCodes :
          /\ requests[i].state = "inflight"
          /\ requests' = [requests EXCEPT ![i].state = "responded",
                                          ![i].statusCode = statusCode]
          /\ LET l == logCall([logged |-> logged, threw |-> NoError],
                              logger, "debug", <<"RESULT:">>)
             IN  /\ logged' = l.logged
                 /\ callbacks' = IF l.threw = NoError
                                 THEN Append(callbacks, responseCallback(statusCode))
                                 ELSE callbacks
                 /\ Escapes(l.threw)
    /\ UNCHANGED <<event, pc, timeoutTimer, handlerState, settled, calls, order,
                   physicalResourceId, responseData, noEcho, logger, hist, read,
                   context, peer, wire, chain>>

\* errorCallback that reports the failed delivery as done
errorCallback_swallowed(error) == [error |-> NoError, result |-> "done"]

\* the arguments of this.callback(error) in the request's error listener
errorCallback(error) == [error |-> error, result |-> Undefined]

\* request.on('error'): logger.error, then this.callback(error)
requestErrors ==
    /\ alive
    /\ \E i \in 1..Len(requests) :
          /\ requests[i].state = "inflight"
          /\ requests' = [requests EXCEPT ![i].state = "errored"]
          /\ LET l == logCall([logged |-> logged, threw |-> NoError],
                              logger, "error", <<"sendResponse Error:">>)
             IN  /\ logged' = l.logged
                 /\ callbacks' = IF l.threw = NoError
                                 THEN Append(callbacks, errorCallback(TransportError))
                                 ELSE callbacks
                 /\ Escapes(l.threw)
    /\ UNCHANGED <<event, pc, timeoutTimer, handlerState, settled, calls, order,
                   physicalResourceId, responseData, noEcho, logger, hist, read,
                   context, peer, wire, chain>>

Next ==
    \/ handle
    \/ handlerFulfils
    \/ handlerRejects
    \/ timeoutHandler
    \/ requestResponds
    \/ requestErrors

Spec == Init /\ [][Next]_vars

\* the event loop keeps running its queued callbacks: the timers fire and the
\* transport completes; nothing obliges the handler's promise to settle
FairSpec ==
    /\ Spec
    /\ WF_vars(handle)
    /\ WF_vars(timeoutHandler)
    /\ WF_vars(requestResponds \/ requestErrors)

----------------------------------------------------------------------------
(* The property view on its own: any event, any key read at any time *)

\* resource.properties.<propertyKey>: value, before and changed as the proxy computes them
readProperty ==
    /\ \E propertyKey \in Keys :
          read' = [key |-> propertyKey,
                   value |-> propertyValue(event, propertyKey),
                   before |-> propertyBefore(event, propertyKey),
                   changed |-> propertyChanged(event, propertyKey)]
    /\ UNCHANGED <<event, lifecycleVars>>

ViewEvents ==
    Events(RequestTypes, {WellFormedURL}, {Undefined}, PropertyMaps, OldPropertyMaps)

ViewInit == \E ev \in ViewEvents : Constructed(ev)

ViewNext == readProperty

ViewSpec == ViewInit /\ [][ViewNext]_vars

----------------------------------------------------------------------------
(* The public setters, called by the code that constructed the instance     *)
(* before it returns to the event loop, and by the handler while it runs.   *)
(* ConfigSpec follows an invocation up to the hand-over of its responses to *)
(* the transport.                                                           *)

SetPhysicalIds == {"", "set-1"}

\* the (key, value) pairs handlers add
DataEntries == {<<"Version", "1">>, <<"Version", "2">>, <<"Other", "1">>}

Loggers == {"StandardLogger", "CustomLogger"}

SetterCalls ==
    Len(hist.physicalIds) + Len(hist.added) + Len(hist.noEchos) + Len(hist.loggers)

\* somebody is running who holds the instance: the constructing code or the handler
SetterCallable ==
    /\ alive
    /\ pc = "constructed" \/ handlerState = "pending"
    /\ SetterCalls < MaxCalls

\* setPhysicalResourceId that keeps an id already present
setPhysicalResourceId_keep ==
    /\ SetterCallable
    /\ \E value \in SetPhysicalIds :
          /\ physicalResourceId' =
                 IF physicalResourceId = Undefined THEN value ELSE physicalResourceId
          /\ hist' = [hist EXCEPT !.physicalIds = Append(@, value)]
    /\ UNCHANGED <<event, pc, timeoutTimer, handlerState, settled, calls, requests,
                   callbacks, uncaught, alive, order, responseData, noEcho, logger, read, context, logged, peer, wire, chain>>

\* setPhysicalResourceId(value)
setPhysicalResourceId ==
    /\ SetterCallable
    /\ \E value \in SetPhysicalIds :
          /\ physicalResourceId' = value
          /\ hist' = [hist EXCEPT !.physicalIds = Append(@, value)]
    /\ UNCHANGED <<event, pc, timeoutTimer, handlerState, settled, calls, requests,
                   callbacks, uncaught, alive, order, responseData, noEcho, logger, read, context, logged, peer, wire, chain>>

\* responseData_[key] = value with a fresh object for every call
assign_fresh(responseData_, key, value) == (key :> value)

\* responseData_[key] = value on a JavaScript object
assign(responseData_, key, value) == (key :> value) @@ responseData_

\* otherInstance with one response-data object shared by all instances
otherInstance_shared(peer_, responseData_) ==
    [peer_ EXCEPT !.responseData = responseData_]

\* what a write to this.responseData leaves of another instance: the field
\* initialiser `= {}` gives every instance an object of its own
otherInstance(peer_, responseData_) == peer_

\* addResponseValue(key, value)
addResponseValue ==
    /\ SetterCallable
    /\ \E entry \in DataEntries :
          /\ responseData' = assign(responseData, entry[1], entry[2])
          /\ hist' = [hist EXCEPT !.added = Append(@, entry)]
          /\ peer' = otherInstance(peer, responseData')
    /\ UNCHANGED <<event, pc, timeoutTimer, handlerState, settled, calls, requests,
                   callbacks, uncaught, alive, order, physicalResourceId, noEcho,
                   logger, read, context, logged, wire, chain>>

\* setNoEcho that can only switch masking on
setNoEcho_sticky ==
    /\ SetterCallable
    /\ \E value \in BOOLEAN :
          /\ noEcho' = (noEcho \/ value)
          /\ hist' = [hist EXCEPT !.noEchos = Append(@, value)]
    /\ UNCHANGED <<event, pc, timeoutTimer, handlerState, settled, calls, requests,
                   callbacks, uncaught, alive, order, physicalResourceId, responseData,
                   logger, read, context, logged, peer, wire, chain>>

\* setNoEcho(value)
setNoEcho ==
    /\ SetterCallable
    /\ \E value \in BOOLEAN :
          /\ noEcho' = value
          /\ hist' = [hist EXCEPT !.noEchos = Append(@, value)]
    /\ UNCHANGED <<event, pc, timeoutTimer, handlerState, settled, calls, requests,
                   callbacks, uncaught, alive, order, physicalResourceId, responseData,
                   logger, read, context, logged, peer, wire, chain>>

\* setLogger(logger)
setLogger ==
    /\ SetterCallable
    /\ \E value \in Loggers :
          /\ logger' = value
          /\ hist' = [hist EXCEPT !.loggers = Append(@, value)]
    /\ UNCHANGED <<event, pc, timeoutTimer, handlerState, settled, calls, requests,
                   callbacks, uncaught, alive, order, physicalResourceId, responseData,
                   noEcho, read, context, logged, peer, wire, chain>>

\* the synchronous code that constructed the instance returns to the event loop
callerReturns ==
    /\ alive
    /\ pc = "constructed"
    /\ pc' = "scheduled"
    /\ UNCHANGED <<event, timeoutTimer, handlerState, settled, calls, requests,
                   callbacks, uncaught, alive, order, physicalResourceId, responseData,
                   noEcho, logger, hist, read, context, logged, peer, wire, chain>>

\* events of the configuration model: every combination of absent, empty and
\* present PhysicalResourceId and name, with a ResponseURL that parses
ConfigEvents ==
    Events({"Create", "Update", "Patch"}, {WellFormedURL}, EventPhysicalIds,
           {[k \in Keys |-> IF k = "name" THEN n ELSE Undefined] :
                n \in {Undefined, "", "1"}},
           {o \in OldPropertyMaps : ~o.present})

ConfigInit == \E ev \in ConfigEvents : NewCustomResource(ev)

ConfigNext ==
    \/ callerReturns
    \/ setPhysicalResourceId
    \/ addResponseValue
    \/ setNoEcho
    \/ setLogger
    \/ handle
    \/ handlerFulfils
    \/ handlerRejects
    \/ timeoutHandler

ConfigSpec == ConfigInit /\ [][ConfigNext]_vars

----------------------------------------------------------------------------
(* An invocation whose caller handed the instance a logger before returning  *)
(* to the event loop (new CustomResource(...); resource.setLogger(logger)),  *)
(* and whose handler writes to the logger it was passed.                     *)

\* most calls the handler makes on its logger
MaxHandlerLogs == 1

AllLoggers == Loggers \cup ThrowingLoggers

HandlerMessage == <<"Hello from handler">>

\* new CustomResource(...) followed by setLogger(logger_) unless the default is kept
WithLogger(ev, logger_) ==
    /\ Untouched(ev, DefaultContext)
    /\ physicalResourceId = Instance(ev, DefaultContext).physicalResourceId
    /\ responseData = <<>>
    /\ noEcho = FALSE
    /\ logger = logger_
    /\ hist = IF logger_ = "StandardLogger" THEN NoHistory
              ELSE [NoHistory EXCEPT !.loggers = <<logger_>>]
    /\ peer = NoPeer
    /\ pc = "scheduled"

HandlerLogs == {i \in 1..Len(logged) : logged[i].message = HandlerMessage}

\* the running handler calls a method of the logger it was passed; a throw of
\* the logger there is the handler's own failure (handlerRejects)
handlerLogs ==
    /\ alive
    /\ handlerState = "pending"
    /\ Len(hist.called) < MaxHandlerLogs
    /\ \E method \in Methods :
          /\ ~throws(Last(hist.passed), method)
          /\ hist' = [hist EXCEPT !.called = Append(@, method)]
          /\ logged' = logCall([logged |-> logged, threw |-> NoError],
                               Last(hist.passed), method, HandlerMessage).logged
    /\ UNCHANGED <<event, pc, timeoutTimer, handlerState, settled, calls, requests,
                   callbacks, uncaught, alive, order, physicalResourceId, responseData,
                   noEcho, logger, read, context, peer, wire, chain>>

LoggerEvents ==
    Events(RequestTypes, {WellFormedURL, MalformedURL}, {Undefined}, {NoProperties},
           {o \in OldPropertyMaps : ~o.present})

LoggerInit == \E ev \in LoggerEvents, logger_ \in AllLoggers : WithLogger(ev, logger_)

LoggerNext ==
    \/ handle
    \/ handlerLogs
    \/ handlerFulfils
    \/ handlerRejects
    \/ timeoutHandler
    \/ requestResponds
    \/ requestErrors

LoggerSpec == LoggerInit /\ [][LoggerNext]_vars

\* the same invocation with a StandardLogger of any level, or the default one
LevelInit ==
    \E ev \in LoggerEvents, logger_ \in StandardLoggers : WithLogger(ev, logger_)

LevelNext ==
    \/ handle
    \/ handlerLogs
    \/ handlerFulfils
    \/ handlerRejects
    \/ timeoutHandler
    \/ requestResponds
    \/ requestErrors

LevelSpec == LevelInit /\ [][LevelNext]_vars

----------------------------------------------------------------------------
(* Two instances alive in one process: a reused host whose earlier handler   *)
(* is still running when the next event is handled.  The variables hold the  *)
(* fields of the instance whose callback the event loop is running, peer     *)
(* those of the other; the transport, the console and the process are        *)
(* shared.                                                                   *)

\* most calls of the public setters on the two instances together
MaxPairCalls == 1

\* the fields of the instance that is running
This ==
    [event |-> event,
     context |-> context,
     pc |-> pc,
     timeoutTimer |-> timeoutTimer,
     handlerState |-> handlerState,
     settled |-> settled,
     calls |-> calls,
     order |-> order,
     physicalResourceId |-> physicalResourceId,
     responseData |-> responseData,
     noEcho |-> noEcho,
     logger |-> logger,
     hist |-> hist,
     read |-> read]

\* the event loop turns to a callback of the other instance: this is bound to it
switchInstance ==
    /\ alive
    /\ peer.pc # "none"
    /\ peer' = This
    /\ event' = peer.event
    /\ context' = peer.context
    /\ pc' = peer.pc
    /\ timeoutTimer' = peer.timeoutTimer
    /\ handlerState' = peer.handlerState
    /\ settled' = peer.settled
    /\ calls' = peer.calls
    /\ order' = peer.order
    /\ physicalResourceId' = peer.physicalResourceId
    /\ responseData' = peer.responseData
    /\ noEcho' = peer.noEcho
    /\ logger' = peer.logger
    /\ hist' = peer.hist
    /\ read' = peer.read
    /\ UNCHANGED <<requests, callbacks, uncaught, alive, logged, wire, chain>>

PairCalls ==
    SetterCalls + Len(peer.hist.physicalIds) + Len(peer.hist.added)
        + Len(peer.hist.noEchos) + Len(peer.hist.loggers)

\* the event of the later invocation and its context
LaterEvent ==
    [RequestType |-> "Delete", ResponseURL |-> WellFormedURL,
     PhysicalResourceId |-> "phys-2", StackId |-> "stack-2", RequestId |-> "req-2",
     LogicalResourceId |-> "logical-2",
     ResourceProperties |-> NoProperties,
     OldResourceProperties |-> [present |-> FALSE, props |-> NoProperties]]

LaterContext ==
    [logStreamName |-> "2026/11/04/[$LATEST]other", remainingTimeInMillis |-> 3000]

PairEvents ==
    Events({"Create", "Update"}, {WellFormedURL}, {Undefined, "phys-1"},
           {NoProperties}, {o \in OldPropertyMaps : ~o.present})

\* both constructors have run and both callers have returned
PairInit ==
    \E ev \in PairEvents :
        /\ Untouched(ev, DefaultContext)
        /\ physicalResourceId = Instance(ev, DefaultContext).physicalResourceId
        /\ responseData = <<>>
        /\ noEcho = FALSE
        /\ logger = "StandardLogger"
        /\ hist = NoHistory
        /\ pc = "scheduled"
        /\ peer = [Instance(LaterEvent, LaterContext) EXCEPT !.pc = "scheduled"]

PairNext ==
    \/ switchInstance
    \/ PairCalls < MaxPairCalls /\ setPhysicalResourceId
    \/ PairCalls < MaxPairCalls /\ addResponseValue
    \/ PairCalls < MaxPairCalls /\ setNoEcho
    \/ handle
    \/ handlerFulfils
    \/ timeoutHandler

PairSpec == PairInit /\ [][PairNext]_vars

----------------------------------------------------------------------------
(* The invocation under every context the host supplies: any remaining time *)
(* at dispatch and any log stream.                                           *)

ContextEvents ==
    Events(RequestTypes, {Undefined, WellFormedURL}, {Undefined}, {NoProperties},
           {o \in OldPropertyMaps : ~o.present})

ContextInit ==
    \E ev \in ContextEvents, ctx \in Contexts :
        /\ Untouched(ev, ctx)
        /\ physicalResourceId = Instance(ev, ctx).physicalResourceId
        /\ responseData = <<>>
        /\ noEcho = FALSE
        /\ logger = "StandardLogger"
        /\ hist = NoHistory
        /\ peer = NoPeer
        /\ pc = "scheduled"

ContextNext ==
    \/ handle
    \/ handlerFulfils
    \/ handlerRejects
    \/ timeoutHandler
    \/ requestResponds
    \/ requestErrors

ContextSpec == ContextInit /\ [][ContextNext]_vars

----------------------------------------------------------------------------
(* The PUT on the wire.  A text is a sequence of characters, each named by   *)
(* itself (ASCII) or by its code point; the serialized body is measured in   *)
(* UTF-16 code units by String.length and written as UTF-8 by request.write. *)

\* longest text of a body value
MaxTextLen == 3

\* one ASCII letter, the quote JSON escapes, and one character each that
\* UTF-8 encodes in two, three and four bytes (the last one a surrogate pair)
Chars == {"a", "\"", "U+00E9", "U+20AC", "U+1F600"}

Texts == UNION {[1..n -> Chars] : n \in 0..MaxTextLen}

\* UTF-16 code units of a character
units(char) == IF char = "U+1F600" THEN 2 ELSE 1

\* UTF-8 bytes of a character
bytes(char) ==
    CASE char = "U+00E9" -> 2
      [] char = "U+20AC" -> 3
      [] char = "U+1F600" -> 4
      [] OTHER -> 1

RECURSIVE length(_)
\* str.length
length(str) == IF str = <<>> THEN 0 ELSE units(Head(str)) + length(Tail(str))

RECURSIVE byteLength(_)
\* the bytes request.write(str) puts on the wire (UTF-8, the default encoding)
byteLength(str) == IF str = <<>> THEN 0 ELSE bytes(Head(str)) + byteLength(Tail(str))

RECURSIVE escape(_)
\* JSON.stringify of the characters of a string: the quote is escaped,
\* characters outside ASCII are left as they are
escape(text) ==
    IF text = <<>> THEN <<>>
    ELSE (IF Head(text) = "\"" THEN <<"\\", "\"">> ELSE <<Head(text)>>)
             \o escape(Tail(text))

\* bodyString = JSON.stringify(body) for a body holding the text as a value;
\* the rest of the body is ASCII, which both measures count alike, and is
\* kept as the enclosing punctuation
bodyString(text) == <<"{", "\"">> \o escape(text) \o <<"\"", "}">>

\* the headers of the request options
requestHeaders(bodyString_) ==
    [contentType |-> "", contentLength |-> length(bodyString_)]

\* sendResponse from JSON.stringify(body) to request.write(bodyString), for a
\* body one of whose values (reason, physical id, data value) is the text
put ==
    /\ \E text \in Texts :
          wire' = [text |-> text,
                   headers |-> requestHeaders(bodyString(text)),
                   written |-> byteLength(bodyString(text))]
    /\ UNCHANGED <<event, pc, timeoutTimer, handlerState, settled, calls, requests,
                   callbacks, uncaught, alive, order, physicalResourceId, responseData,
                   noEcho, logger, hist, read, context, logged, peer, chain>>

WireInit ==
    \E ev \in Events({"Create"}, {WellFormedURL}, {Undefined}, {NoProperties},
                      {o \in OldPropertyMaps : ~o.present}) : Constructed(ev)

WireNext == put

WireSpec == WireInit /\ [][WireNext]_vars

----------------------------------------------------------------------------
(* The chained API of the earlier versions (src/index.ts, lines 666-930):    *)
(*   new CustomResource(context, callback)                                   *)
(*       .onCreate(f).onUpdate(g).onDelete(h).handle(event)                  *)
(* Each request type has a queue of functions; handle(event) chains the      *)
(* functions of one queue with reduce.  A function is named by the number of *)
(* its registration.  This version never stores or clears its timer and      *)
(* takes the event as the argument of handle, called by the code that built  *)
(* the chain.                                                                *)

\* most functions registered in the three queues together
MaxQueued == 3

\* what a function's promise resolves with: the event it was given or
\* another value
ChainValues == {"event", "other"}

Queued ==
    Len(chain.createFunctions) + Len(chain.updateFunctions)
        + Len(chain.deleteFunctions)

\* the chain is still being built
Registrable ==
    /\ alive
    /\ pc = "constructed"
    /\ Queued < MaxQueued

\* onCreate(func): this.createFunctions.push(func)
onCreate ==
    /\ Registrable
    /\ chain' = [chain EXCEPT !.createFunctions = Append(@, Queued + 1)]
    /\ UNCHANGED <<event, pc, timeoutTimer, handlerState, settled, calls, requests,
                   callbacks, uncaught, alive, order, physicalResourceId, responseData,
                   noEcho, logger, hist, read, context, logged, peer, wire>>

\* onUpdate(func): this.updateFunctions.push(func)
onUpdate ==
    /\ Registrable
    /\ chain' = [chain EXCEPT !.updateFunctions = Append(@, Queued + 1)]
    /\ UNCHANGED <<event, pc, timeoutTimer, handlerState, settled, calls, requests,
                   callbacks, uncaught, alive, order, physicalResourceId, responseData,
                   noEcho, logger, hist, read, context, logged, peer, wire>>

\* onDelete(func): this.deleteFunctions.push(func)
onDelete ==
    /\ Registrable
    /\ chain' = [chain EXCEPT !.deleteFunctions = Append(@, Queued + 1)]
    /\ UNCHANGED <<event, pc, timeoutTimer, handlerState, settled, calls, requests,
                   callbacks, uncaught, alive, order, physicalResourceId, responseData,
                   noEcho, logger, hist, read, context, logged, peer, wire>>

\* the if/else chain of handle(event): the queue of a request type
queueFor(requestType) ==
    CASE requestType = "Create" -> "createFunctions"
      [] requestType = "Update" -> "updateFunctions"
      [] requestType = "Delete" -> "deleteFunctions"
      [] OTHER -> Undefined

queueOf(ch, name) ==
    CASE name = "createFunctions" -> ch.createFunctions
      [] name = "updateFunctions" -> ch.updateFunctions
      [] name = "deleteFunctions" -> ch.deleteFunctions

\* nextArgument that hands every function the event
nextArgument_event(resolved) == "event"

\* the argument of next(value) in the reduce callback: what the promise before
\* it resolved with, Promise.resolve(event) for the first function
nextArgument(resolved) == IF resolved = <<>> THEN "event" ELSE Last(resolved)

\* the body built by this version's sendResponse: no NoEcho, the same pointer
\* for both statuses, the event's PhysicalResourceId and the Name property as
\* fallbacks of the id
chainedResponseBody(responseStatus, responseData_) ==
    [Status |-> responseStatus,
     Reason |-> responseData_ \o
                <<" | ", "Full error", " in CloudWatch ", context.logStreamName>>,
     PhysicalResourceId |->
         IF physicalResourceId # Undefined THEN physicalResourceId
         ELSE IF event.PhysicalResourceId # Undefined THEN event.PhysicalResourceId
         ELSE IF "Name" \in DOMAIN event.ResourceProperties
              THEN event.ResourceProperties["Name"]
              ELSE context.logStreamName,
     StackId |-> event.StackId,
     RequestId |-> event.RequestId,
     LogicalResourceId |-> event.LogicalResourceId,
     Data |-> responseData]

\* this version's sendResponse: log, build the body, log, parse the URL, log,
\* hand the request to the transport; the timer is left alone
chainedSendResponse(st, responseStatus, responseData_) ==
    LET s1 == logCall(st, logger, "debug", <<"Sending response ", responseStatus, ":">>)
        s2 == logCall(s1, logger, "debug", <<"RESPONSE BODY:">>)
        s3 == logCall(s2, logger, "info", <<"SENDING RESPONSE...">>)
    IN  IF s1.threw # NoError THEN s1
        ELSE IF s2.threw # NoError THEN s2
        ELSE IF ~URLParses(event.ResponseURL) THEN [s2 EXCEPT !.threw = InvalidURLError]
        ELSE IF s3.threw # NoError THEN s3
        ELSE [s3 EXCEPT !.requests =
                 Append(@, [body |-> chainedResponseBody(responseStatus, responseData_),
                            state |-> "inflight", statusCode |-> 0])]

\* this version's handleError(event, err): the same statements as handleError
chainedHandleError(st, err) ==
    LET s0 == consoleLog(st, err)
        s1 == logCall(s0, logger, "error", stringifyError(err))
    IN  IF err.circular THEN [s0 EXCEPT !.threw = CircularError]
        ELSE IF s1.threw # NoError THEN s1
        ELSE chainedSendResponse(s1, "FAILED", errorMessage(err))

\* .catch((err) => this.handleError(event, err)) and the catch of handle(event)
chainedCatch(r) ==
    IF r.threw = NoError THEN r
    ELSE chainedHandleError([r EXCEPT !.threw = NoError], r.threw)

\* the continuation of the reduce chain once the promise before has resolved:
\* the next function of the queue is called with the resolved value (sync is
\* what it throws before returning its promise), or, the queue exhausted, the
\* result resolves and .then() logs and sends SUCCESS
advance(st, ch, sync) ==
    LET name == queueFor(event.RequestType)
        queue == queueOf(ch, name)
        n == Len(ch.started)
        started == Append(ch.started,
                          [queue |-> name, func |-> queue[n + 1],
                           value |-> nextArgument(ch.resolved)])
        d == logCall(st, logger, "debug", <<"event">>)
    IN  IF n < Len(queue)
        THEN IF sync = NoError
             THEN [st |-> st,
                   chain |-> [ch EXCEPT !.started = started, !.running = TRUE],
                   handlerState |-> "pending", settled |-> NoError]
             ELSE [st |-> chainedHandleError(st, sync),
                   chain |-> [ch EXCEPT !.started = started, !.running = FALSE],
                   handlerState |-> "rejected", settled |-> sync]
        ELSE [st |-> chainedCatch(
                         IF d.threw # NoError THEN d
                         ELSE chainedSendResponse(d, "SUCCESS",
                                  completedSuccessfully(event.RequestType))),
              chain |-> [ch EXCEPT !.running = FALSE],
              handlerState |-> "fulfilled", settled |-> NoError]

\* the race participant a state of the result promise stands for
settledAs(order_, handlerState_) ==
    CASE handlerState_ = "fulfilled" -> Append(order_, "fulfil")
      [] handlerState_ = "rejected" -> Append(order_, "reject")
      [] OTHER -> order_

\* handle(event), called by the code that built the chain, with the promise
\* continuations that run before the event loop takes the next callback
chainedHandle ==
    /\ alive
    /\ pc = "constructed"
    /\ pc' = "handled"
    /\ UNCHANGED <<event, calls, callbacks, physicalResourceId, responseData, noEcho,
                   logger, read, context, peer, wire>>
    /\ IF ResponseURLMissing(event)
       THEN /\ Escapes(ResponseURLMissingError)
            /\ UNCHANGED <<timeoutTimer, handlerState, settled, requests, order, hist,
                           logged, chain>>
       ELSE LET received == logCall([timeoutTimer |-> timeoutTimer,
                                     requests |-> requests, logged |-> logged,
                                     threw |-> NoError],
                                    logger, "debug", <<"REQUEST RECEIVED:">>)
                armed == [received EXCEPT !.timeoutTimer = "pending"]
                timers == Append(hist.timers,
                                 setTimeout(timerDelay(context.remainingTimeInMillis)))
            IN  IF received.threw # NoError
                THEN /\ Escapes(received.threw)
                     /\ UNCHANGED <<timeoutTimer, handlerState, settled, requests,
                                    order, hist, logged, chain>>
                ELSE IF queueFor(event.RequestType) = Undefined
                THEN LET r == chainedCatch(
                                  chainedSendResponse(armed, "FAILED",
                                      unexpectedRequestType(event.RequestType)))
                     IN  /\ timeoutTimer' = r.timeoutTimer
                         /\ requests' = r.requests
                         /\ logged' = r.logged
                         /\ hist' = [hist EXCEPT !.timers = timers]
                         /\ Escapes(r.threw)
                         /\ UNCHANGED <<handlerState, settled, order, chain>>
                ELSE \E sync \in {NoError} \cup ErrorValues :
                        LET a == advance(armed, chain, sync)
                        IN  /\ chain' = a.chain
                            /\ handlerState' = a.handlerState
                            /\ settled' = a.settled
                            /\ order' = settledAs(order, a.handlerState)
                            /\ hist' = [hist EXCEPT !.timers = timers]
                            /\ timeoutTimer' = a.st.timeoutTimer
                            /\ requests' = a.st.requests
                            /\ logged' = a.st.logged
                            /\ Escapes(a.st.threw)

\* the promise of the running function resolves with a value: the chain goes on
functionResolves ==
    /\ alive
    /\ handlerState = "pending"
    /\ chain.running
    /\ \E value \in ChainValues, sync \in {NoError} \cup ErrorValues :
          LET a == advance([timeoutTimer |-> timeoutTimer, requests |-> requests,
                            logged |-> logged, threw |-> NoError],
                           [chain EXCEPT !.resolved = Append(@, value)], sync)
          IN  /\ chain' = a.chain
              /\ handlerState' = a.handlerState
              /\ settled' = a.settled
              /\ order' = settledAs(order, a.handlerState)
              /\ timeoutTimer' = a.st.timeoutTimer
              /\ requests' = a.st.requests
              /\ logged' = a.st.logged
              /\ Escapes(a.st.threw)
    /\ UNCHANGED <<event, pc, calls, callbacks, physicalResourceId, responseData,
                   noEcho, logger, hist, read, context, peer, wire>>

\* the promise of the running function rejects with err: every later callback
\* of the reduce chain rethrows at its await, and .catch() runs handleError
functionRejects ==
    /\ alive
    /\ handlerState = "pending"
    /\ chain.running
    /\ \E err \in ErrorValues :
          LET r == chainedHandleError([timeoutTimer |-> timeoutTimer,
                                       requests |-> requests, logged |-> logged,
                                       threw |-> NoError], err)
          IN  /\ chain' = [chain EXCEPT !.running = FALSE]
              /\ handlerState' = "rejected"
              /\ settled' = err
              /\ order' = Append(order, "reject")
              /\ timeoutTimer' = r.timeoutTimer
              /\ requests' = r.requests
              /\ logged' = r.logged
              /\ Escapes(r.threw)
    /\ UNCHANGED <<event, pc, calls, callbacks, physicalResourceId, responseData,
                   noEcho, logger, hist, read, context, peer, wire>>

\* the timer callback of this version's timeout(event); nothing ever cancels
\* the timer
chainedTimeoutHandler ==
    /\ alive
    /\ timeoutTimer = "pending"
    /\ order' = Append(order, "timeout")
    /\ LET st == [timeoutTimer |-> "fired", requests |-> requests, logged |-> logged,
                  threw |-> NoError]
           l == logCall(st, logger, "error", <<"Timeout FAILURE!">>)
           s == chainedSendResponse(l, "FAILED", timedOutMessage)
           r == IF l.threw # NoError THEN l ELSE chainedCatch(s)
       IN  /\ timeoutTimer' = r.timeoutTimer
           /\ requests' = r.requests
           /\ logged' = r.logged
           /\ callbacks' =
                  IF l.threw = NoError /\ executorPromise(s.threw) = "fulfilled"
                  THEN Append(callbacks,
                              [error |-> FunctionTimedOutError, result |-> Undefined])
                  ELSE callbacks
           /\ Escapes(r.threw)
    /\ UNCHANGED <<event, pc, handlerState, settled, calls, physicalResourceId,
                   responseData, noEcho, logger, hist, read, context, peer, wire,
                   chain>>

ChainEvents ==
    Events(RequestTypes, ResponseURLs, {Undefined}, {NoProperties},
           {o \in OldPropertyMaps : ~o.present})

\* new CustomResource(context, callback) has returned; the event is the one
\* the host passed to the function that builds the chain
ChainInit ==
    \E ev \in ChainEvents :
        /\ Untouched(ev, DefaultContext)
        /\ physicalResourceId = Undefined
        /\ responseData = <<>>
        /\ noEcho = FALSE
        /\ logger = "StandardLogger"
        /\ hist = NoHistory
        /\ peer = NoPeer
        /\ pc = "constructed"

ChainNext ==
    \/ onCreate
    \/ onUpdate
    \/ onDelete
    \/ chainedHandle
    \/ functionResolves
    \/ functionRejects
    \/ chainedTimeoutHandler

ChainSpec == ChainInit /\ [][ChainNext]_vars

----------------------------------------------------------------------------
(* The property view read during an invocation: by the code that holds the  *)
(* instance, at any time, while the handler adds response values and the     *)
(* guard is pending or has fired.                                            *)

\* most calls of addResponseValue while properties are read
MaxReadCalls == 1

\* any current properties, with a key absent or present; previous properties
\* absent, or present with a value for the second key or without
ReadEvents ==
    Events({"Create", "Update"}, {WellFormedURL}, {Undefined, "phys-1"}, PropertyMaps,
           {o \in OldPropertyMaps : ~o.present \/ o.props["name"] = Undefined})

ReadInit == \E ev \in ReadEvents : Constructed(ev)

ReadNext ==
    \/ readProperty
    \/ Len(hist.added) < MaxReadCalls /\ addResponseValue
    \/ handle
    \/ handlerFulfils
    \/ timeoutHandler

ReadSpec == ReadInit /\ [][ReadNext]_vars

----------------------------------------------------------------------------
(* Properties *)

\* the failure reason of a response: the part of Reason before " | "
reasonOf(request) == SubSeq(request.body.Reason, 1, Len(request.body.Reason) - 4)

\* the handler settled (or the guard fired) first among the race participants
First(participant) == order # <<>> /\ order[1] = participant

\* C1: at most one response is handed to the transport per invocation,
\* whichever of handler fulfilment, handler rejection and timeout comes first
C1_AtMostOneResponse == Len(requests) <= 1

\* C2: if the event carries a ResponseURL, a response is eventually
\* transmitted, whether or not the handler ever settles
C2_ResponseEventuallySent ==
    (event.ResponseURL # Undefined) ~> (Len(requests) >= 1)

\* C3: the host completion callback is invoked at most once per invocation
C3_CallbackAtMostOnce == Len(callbacks) <= 1

\* C4: if the handler's promise fulfils before the timeout guard fires, every
\* response sent is SUCCESS with a reason beginning "<RequestType> completed
\* successfully", and with a ResponseURL that parses exactly one is sent
C4_FulfilFirstSendsSuccess ==
    First("fulfil") =>
        /\ \A i \in 1..Len(requests) :
              /\ requests[i].body.Status = "SUCCESS"
              /\ reasonOf(requests[i]) = <<event.RequestType, " completed successfully">>
        /\ URLParses(event.ResponseURL) => Len(requests) = 1

C4_Witness ==
    /\ First("fulfil")
    /\ Len(requests) = 1
    /\ requests[1].body.Status = "SUCCESS"
    /\ event.RequestType = "Delete"

\* the reason a FAILED response carries for the value err
carries(request, err) ==
    IF err.kind \in {"Error", "string"}
    THEN reasonOf(request) = <<err.message>>
    ELSE /\ Len(reasonOf(request)) = 2
         /\ reasonOf(request)[2] = err.message

\* C5: every failure of the selected handler (rejection or synchronous throw)
\* becomes a FAILED response carrying the error's message, and nothing escapes
\* as an unhandled rejection or uncaught exception (ResponseURL parsing)
C5_HandlerFailureBecomesFailed ==
    (handlerState \in {"rejected", "threw"} /\ URLParses(event.ResponseURL)) =>
        /\ uncaught = <<>>
        /\ \E i \in 1..Len(requests) :
              /\ requests[i].body.Status = "FAILED"
              /\ carries(requests[i], settled)

\* C6 as stated: if the timeout guard fires before the handler settles, a FAILED
\* response with the reason "execution time exceeded" is sent
C6_TimeoutReasonAsStated ==
    (First("timeout") /\ URLParses(event.ResponseURL)) =>
        /\ Len(requests) >= 1
        /\ requests[1].body.Status = "FAILED"
        /\ reasonOf(requests[1]) = <<"execution time exceeded">>

\* C6 (amended): if the timeout guard fires before the handler settles and the
\* ResponseURL parses, a FAILED response with the fixed reason
\* "Function timed out" is sent
C6_TimeoutFirstSendsTimedOut ==
    (First("timeout") /\ URLParses(event.ResponseURL)) =>
        /\ Len(requests) >= 1
        /\ requests[1].body.Status = "FAILED"
        /\ reasonOf(requests[1]) = <<"Function timed out">>

C6_Witness ==
    /\ First("timeout")
    /\ handlerState = "pending"
    /\ Len(requests) = 1
    /\ requests[1].body.Status = "FAILED"

KnownRequestTypes == {"Create", "Update", "Delete"}

NoHandlerInvoked == \A h \in HandlerNames : calls[h] = 0

\* C7 as stated: for a RequestType other than Create, Update, Delete a FAILED
\* response with the reason "unexpected request type: <value>" is sent, no
\* handler is invoked and no timeout response follows
C7_UnexpectedTypeAsStated ==
    (event.RequestType \notin KnownRequestTypes) =>
        /\ NoHandlerInvoked
        /\ order = <<>>
        /\ timeoutTimer \in {"unarmed", "cleared"}
        /\ (pc = "handled" /\ URLParses(event.ResponseURL)) =>
              /\ Len(requests) = 1
              /\ requests[1].body.Status = "FAILED"
              /\ reasonOf(requests[1]) = <<"unexpected request type: ", event.RequestType>>

\* C7 (amended): for a RequestType other than Create, Update, Delete no handler
\* is ever invoked and the timeout guard never fires; with a ResponseURL that
\* parses exactly one response is sent, FAILED with the reason
\* "Unexpected request type: <value>"
C7_UnexpectedTypeFails ==
    (event.RequestType \notin KnownRequestTypes) =>
        /\ NoHandlerInvoked
        /\ order = <<>>
        /\ timeoutTimer \in {"unarmed", "cleared"}
        /\ (pc = "handled" /\ URLParses(event.ResponseURL)) =>
              /\ Len(requests) = 1
              /\ requests[1].body.Status = "FAILED"
              /\ reasonOf(requests[1]) = <<"Unexpected request type: ", event.RequestType>>

C7_Witness ==
    /\ event.RequestType = "Patch"
    /\ pc = "handled"
    /\ Len(requests) = 1
    /\ requests[1].state = "responded"
    /\ timeoutTimer = "cleared"

\* C8: without a ResponseURL no handler is invoked, no timeout guard is armed
\* and no response is transmitted, in any state of the invocation
C8_NoURLNothingHappens ==
    (event.ResponseURL = Undefined) =>
        /\ NoHandlerInvoked
        /\ handlerState = "notInvoked"
        /\ timeoutTimer = "unarmed"
        /\ requests = <<>>
        /\ callbacks = <<>>

C8_Witness ==
    /\ event.ResponseURL = Undefined
    /\ pc = "handled"
    /\ uncaught = <<ResponseURLMissingError>>

\* the handler the request type stands for
Selected ==
    [t \in KnownRequestTypes |->
        CASE t = "Create" -> "createFunction"
          [] t = "Update" -> "updateFunction"
          [] t = "Delete" -> "deleteFunction"]

\* C9: only the handler of the event's request type is ever invoked, never
\* more than once, and once handle() has dispatched exactly once
C9_DispatchByRequestType ==
    /\ \A h \in HandlerNames :
          /\ calls[h] <= 1
          /\ calls[h] = 1 =>
                /\ event.RequestType \in KnownRequestTypes
                /\ h = Selected[event.RequestType]
    /\ (/\ pc = "handled"
        /\ event.ResponseURL # Undefined
        /\ event.RequestType \in KnownRequestTypes) =>
           calls[Selected[event.RequestType]] = 1

C9_Witness ==
    /\ event.RequestType = "Update"
    /\ calls = [h \in HandlerNames |-> IF h = "updateFunction" THEN 1 ELSE 0]
    /\ handlerState = "fulfilled"

\* C10: for a Create event every property read has changed = false and
\* before = undefined, with or without OldResourceProperties
C10_CreateNeverChanged ==
    (event.RequestType = "Create" /\ read # NoRead) =>
        /\ read.changed = FALSE
        /\ read.before = Undefined

\* C11: on an Update event, for a property present in both ResourceProperties
\* and OldResourceProperties, before is the old entry and changed is true
\* exactly when the two values differ
C11_UpdateChangedWhenDiffering ==
    (/\ event.RequestType = "Update"
     /\ read # NoRead
     /\ event.ResourceProperties[read.key] # Undefined
     /\ event.OldResourceProperties.present
     /\ event.OldResourceProperties.props[read.key] # Undefined) =>
        /\ read.before = event.OldResourceProperties.props[read.key]
        /\ read.changed <=>
              (event.OldResourceProperties.props[read.key]
                  # event.ResourceProperties[read.key])

C11_Witness ==
    /\ event.RequestType = "Update"
    /\ read.key = "value"
    /\ read.value = "2"
    /\ read.before = "1"
    /\ read.changed

\* C12: for every request type and key, changed is true if and only if the
\* previous value is defined and unequal to the current value
C12_ChangedIffPreviousDiffers ==
    (read # NoRead) =>
        (read.changed <=> (read.before # Undefined /\ read.before # read.value))

\* a step that hands one more response to the transport, and the body it hands over
Sends == Len(requests') = Len(requests) + 1

NewBody == requests'[Len(requests')].body

\* C13: the value most recently passed to setPhysicalResourceId before a
\* response is built is the PhysicalResourceId of that response, whatever id
\* the event supplied
C13_PhysicalIdRoundTrip ==
    [][(Sends /\ hist.physicalIds # <<>>) =>
          NewBody.PhysicalResourceId = Last(hist.physicalIds)]_vars

C13_Witness ==
    /\ event.PhysicalResourceId = "phys-1"
    /\ hist.physicalIds = <<"set-1">>
    /\ Len(requests) = 1
    /\ requests[1].body.Status = "SUCCESS"
    /\ requests[1].body.PhysicalResourceId = "set-1"

\* the first candidate of the precedence: the value last set, the event's
\* PhysicalResourceId (if not empty), the name property (if present), the
\* log-stream name
ExpectedPhysicalId ==
    IF hist.physicalIds # <<>> THEN Last(hist.physicalIds)
    ELSE IF event.PhysicalResourceId \notin {Undefined, ""}
         THEN event.PhysicalResourceId
         ELSE IF event.ResourceProperties["name"] # Undefined
              THEN event.ResourceProperties["name"]
              ELSE context.logStreamName

\* C14: the PhysicalResourceId of every response is the first available of:
\* the value set through setPhysicalResourceId, the event's PhysicalResourceId,
\* the name property, the log-stream name
C14_PhysicalIdPrecedence ==
    [][Sends => NewBody.PhysicalResourceId = ExpectedPhysicalId]_vars

C14_Witness ==
    /\ event.RequestType = "Update"
    /\ event.PhysicalResourceId = "phys-1"
    /\ event.ResourceProperties["name"] = "1"
    /\ hist.physicalIds = <<>>
    /\ Len(requests) = 1
    /\ requests[1].body.PhysicalResourceId = "phys-1"

\* C15: every transmitted response carries a non-empty PhysicalResourceId
C15_PhysicalIdNonEmpty ==
    \A i \in 1..Len(requests) : requests[i].body.PhysicalResourceId # ""

\* C16: every response, SUCCESS or FAILED, echoes the event's StackId,
\* RequestId and LogicalResourceId and has a Data map, which is empty when no
\* response value was added
C16_IdentifiersEchoed ==
    [][Sends =>
          /\ NewBody.StackId = event.StackId
          /\ NewBody.RequestId = event.RequestId
          /\ NewBody.LogicalResourceId = event.LogicalResourceId
          /\ hist.added = <<>> => DOMAIN NewBody.Data = {}]_vars

C16_Witness ==
    /\ Len(requests) = 2
    /\ requests[1].body.Status = "FAILED"
    /\ requests[2].body.Status = "SUCCESS"
    /\ hist.added = <<>>
    /\ \A i \in 1..2 : /\ requests[i].body.StackId = "stack-1"
                       /\ requests[i].body.RequestId = "req-1"
                       /\ requests[i].body.LogicalResourceId = "logical-1"
                       /\ DOMAIN requests[i].body.Data = {}

\* the map a sequence of addResponseValue calls stands for: every key ever
\* added, with the value of its most recent call
ExpectedData(added) ==
    [k \in {added[i][1] : i \in DOMAIN added} |->
        added[CHOOSE i \in DOMAIN added :
                 /\ added[i][1] = k
                 /\ \A j \in DOMAIN added : j > i => added[j][1] # k][2]]

SameMap(f, g) == DOMAIN f = DOMAIN g /\ \A k \in DOMAIN f : f[k] = g[k]

\* C17: the response data holds exactly the keys ever added, each with the
\* value of its most recent addResponseValue call, never loses a key, and the
\* Data of a response is this map as it stands when the response is built
C17_ResponseDataGrows ==
    [][/\ SameMap(responseData, ExpectedData(hist.added))
       /\ SameMap(responseData', ExpectedData(hist.added'))
       /\ DOMAIN responseData \subseteq DOMAIN responseData'
       /\ Sends => SameMap(NewBody.Data, ExpectedData(hist.added))]_vars

C17_Witness ==
    /\ hist.added = << <<"Other", "1">>, <<"Version", "2">> >>
    /\ Len(requests) = 1
    /\ DOMAIN requests[1].body.Data = {"Other", "Version"}
    /\ requests[1].body.Data["Version"] = "2"

\* C18: NoEcho of every response, FAILED or SUCCESS, is false if setNoEcho was
\* never called and otherwise the argument of the last call made before the
\* response is built
C18_NoEchoLastSet ==
    [][Sends =>
          NewBody.NoEcho = (IF hist.noEchos = <<>> THEN FALSE ELSE Last(hist.noEchos))]_vars

C18_Witness ==
    /\ hist.noEchos = <<TRUE, FALSE>>
    /\ Len(requests) = 2
    /\ requests[1].body.Status = "FAILED"
    /\ reasonOf(requests[1]) = <<"Function timed out">>
    /\ requests[1].body.NoEcho
    /\ requests[2].body.Status = "SUCCESS"
    /\ ~requests[2].body.NoEcho

\* C19: while the code that constructed the instance is still running nothing
\* is dispatched (no timer armed, no handler invoked, no response sent), and
\* the handler is handed the logger configured by then
C19_DispatchAfterConstruction ==
    [][/\ pc = "constructed" =>
             /\ timeoutTimer = "unarmed"
             /\ NoHandlerInvoked
             /\ requests = <<>>
       /\ (timeoutTimer' # timeoutTimer \/ calls' # calls \/ requests' # requests)
             => pc # "constructed"
       /\ Len(hist'.passed) > Len(hist.passed) =>
             Last(hist'.passed) =
                 (IF hist.loggers = <<>> THEN "StandardLogger" ELSE Last(hist.loggers))]_vars

C19_Witness ==
    /\ hist.loggers = <<"CustomLogger">>
    /\ hist.noEchos = <<TRUE>>
    /\ hist.passed = <<"CustomLogger">>
    /\ handlerState = "fulfilled"
    /\ Len(requests) = 1
    /\ requests[1].body.NoEcho

\* C20: when a PUT completes with any status code, the host callback is
\* invoked once without an error and the completion starts no other request
C20_AnyStatusIsSuccess ==
    [][\A i \in 1..Len(requests) :
          (requests[i].state = "inflight" /\ requests'[i].state = "responded") =>
              /\ requests'[i].statusCode \in StatusCodes
              /\ callbacks' = Append(callbacks, [error |-> NoError, result |-> "done"])
              /\ Len(requests') = Len(requests)]_vars

C20_Witness ==
    /\ Len(requests) = 1
    /\ requests[1].state = "responded"
    /\ requests[1].statusCode = 500
    /\ callbacks = <<[error |-> NoError, result |-> "done"]>>

\* C21: when the transport reports an error for a request, the host callback
\* is invoked with that error; the failure starts no other request and runs no
\* handler, and a failed request is never sent again
C21_TransportErrorReported ==
    [][\A i \in 1..Len(requests) :
          /\ (requests[i].state = "inflight" /\ requests'[i].state = "errored") =>
                /\ callbacks' = Append(callbacks,
                                       [error |-> TransportError, result |-> Undefined])
                /\ Len(requests') = Len(requests)
                /\ calls' = calls
                /\ handlerState' = handlerState
          /\ requests[i].state = "errored" => requests'[i] = requests[i]]_vars

C21_Witness ==
    /\ Len(requests) = 1
    /\ requests[1].state = "errored"
    /\ callbacks = <<[error |-> TransportError, result |-> Undefined]>>

ErrorCallbacks == {j \in 1..Len(callbacks) : callbacks[j].error # NoError}

RequestsIn(state) == {i \in 1..Len(requests) : requests[i].state = state}

\* C22: the host callback receives an error only for a delivery that failed:
\* every error it is handed is a transport error of one failed request, and
\* every delivered response, FAILED ones included, is answered with success
C22_CallbackErrorOnlyFromTransport ==
    /\ \A j \in ErrorCallbacks : callbacks[j].error = TransportError
    /\ Cardinality(ErrorCallbacks) = Cardinality(RequestsIn("errored"))
    /\ Len(callbacks) - Cardinality(ErrorCallbacks) = Cardinality(RequestsIn("responded"))

C22_Witness ==
    /\ order = <<"timeout">>
    /\ Len(requests) = 1
    /\ requests[1].body.Status = "FAILED"
    /\ requests[1].state = "responded"
    /\ callbacks = <<[error |-> NoError, result |-> "done"]>>

\* the outcome of an invocation whose logger does not throw: a request of
\* unknown type is answered FAILED once, a known one is dispatched, the first
\* of fulfilment and timeout decides the first response
Outcome ==
    URLParses(event.ResponseURL) =>
        /\ (pc = "handled" /\ event.RequestType \notin KnownRequestTypes) =>
              /\ Len(requests) = 1
              /\ requests[1].body.Status = "FAILED"
        /\ (pc = "handled" /\ event.RequestType \in KnownRequestTypes) =>
              calls[Selected[event.RequestType]] = 1
        /\ First("fulfil") =>
              /\ Len(requests) >= 1
              /\ requests[1].body.Status = "SUCCESS"
        /\ First("timeout") =>
              /\ Len(requests) >= 1
              /\ requests[1].body.Status = "FAILED"

\* C23: a logger whose methods throw never changes the outcome: whatever
\* logger the instance holds, nothing the logger throws escapes and the
\* invocation sends the response it sends with a logger that does not throw
C23_LoggerNeverChangesOutcome ==
    /\ \A j \in 1..Len(uncaught) : uncaught[j] # LoggerError
    /\ Outcome

\* C24: with the default logger only error-level messages are emitted; warn,
\* info, debug and log messages are suppressed
C24_DefaultLoggerOnlyErrors ==
    \A i \in 1..Len(logged) :
        logged[i].logger = "StandardLogger" => logged[i].method = "error"

\* a step in which the event loop turns from one instance to the other
Switches == event'.RequestId # event.RequestId

\* C25: with two instances alive in one process, no operation of one changes
\* the other's physical id, response data, NoEcho or timer, and each response
\* carries the identifiers, the data, the id and the NoEcho of its own instance
C25_InstancesShareNothing ==
    [][/\ ~Switches =>
             /\ peer'.physicalResourceId = peer.physicalResourceId
             /\ peer'.responseData = peer.responseData
             /\ peer'.noEcho = peer.noEcho
             /\ peer'.timeoutTimer = peer.timeoutTimer
       /\ Sends =>
             /\ NewBody.StackId = event.StackId
             /\ NewBody.RequestId = event.RequestId
             /\ NewBody.LogicalResourceId = event.LogicalResourceId
             /\ SameMap(NewBody.Data, ExpectedData(hist.added))
             /\ NewBody.PhysicalResourceId = ExpectedPhysicalId
             /\ NewBody.NoEcho =
                    (IF hist.noEchos = <<>> THEN FALSE ELSE Last(hist.noEchos))]_vars

C25_Witness ==
    /\ Len(requests) = 2
    /\ requests[1].body.RequestId = "req-2"
    /\ requests[1].body.PhysicalResourceId = "phys-2"
    /\ DOMAIN requests[1].body.Data = {}
    /\ requests[2].body.RequestId = "req-1"
    /\ DOMAIN requests[2].body.Data = {"Version"}
    /\ peer.timeoutTimer = "cleared"
    /\ timeoutTimer = "cleared"

Settles(participant) == participant \in {"fulfil", "reject", "threw"}

\* C26: once a response has been handed over, the timeout guard is not
\* pending; and if the handler settles before the guard fires, the guard never
\* fires afterwards, so no timeout response follows the handler's response
C26_GuardDisarmedOnceSent ==
    /\ requests # <<>> => timeoutTimer # "pending"
    /\ (order # <<>> /\ Settles(order[1])) =>
          /\ \A k \in 1..Len(order) : order[k] # "timeout"
          /\ \A i \in 1..Len(requests) : reasonOf(requests[i]) # timedOutMessage

TimerStates == {"unarmed", "pending", "fired", "cleared"}

\* C27: disarming is idempotent and unconditional: on a guard that has fired
\* or was disarmed before it raises no error and changes nothing, and it
\* always leaves the guard not pending
C27_DisarmIdempotent ==
    [][/\ \A timer \in TimerStates :
             /\ clearTimeout(timer) # "pending"
             /\ clearTimeout(clearTimeout(timer)) = clearTimeout(timer)
       /\ timeoutTimer \in {"fired", "cleared"} => timeoutTimer' = timeoutTimer
       /\ Sends => timeoutTimer' # "pending"
       /\ (Sends /\ timeoutTimer \in {"fired", "cleared"}) => uncaught' = uncaught]_vars

C27_Witness ==
    /\ order = <<"timeout", "fulfil">>
    /\ timeoutTimer = "fired"
    /\ Len(requests) = 2
    /\ requests[2].body.Status = "SUCCESS"
    /\ uncaught = <<>>

\* the guard is armed at most once, and whenever a handler has been invoked,
\* also one that threw at once, it has been armed exactly once, with the
\* delay remaining - 1000
ArmedOnce ==
    /\ Len(hist.timers) <= 1
    /\ ~NoHandlerInvoked =>
          /\ Len(hist.timers) = 1
          /\ timeoutTimer # "unarmed"
    /\ \A k \in 1..Len(hist.timers) :
          hist.timers[k].delay = context.remainingTimeInMillis - 1000

\* C28 as stated: the guard is armed exactly once, before the handler is
\* invoked, with the delay remaining - 1000, and for every remaining time it
\* fires before the budget is exhausted, leaving the margin of one second
C28_MarginAsStated ==
    /\ ArmedOnce
    /\ (pc = "handled" /\ event.ResponseURL # Undefined) => Len(hist.timers) = 1
    /\ \A k \in 1..Len(hist.timers) :
          /\ hist.timers[k].after < context.remainingTimeInMillis
          /\ context.remainingTimeInMillis - hist.timers[k].after = 1000

\* C28 (amended): the guard is armed at most once per invocation and exactly
\* once before any handler is invoked, with the delay remaining - 1000; for
\* a remaining time above 1000 ms it fires 1000 ms before the budget is
\* exhausted, and for a remaining time of at most 1000 ms the runtime waits
\* 1 ms, so it fires at once, without the margin
C28_MarginWhenBudgetAllows ==
    /\ ArmedOnce
    /\ \A k \in 1..Len(hist.timers) :
          IF context.remainingTimeInMillis > 1000
          THEN /\ hist.timers[k].after < context.remainingTimeInMillis
               /\ context.remainingTimeInMillis - hist.timers[k].after = 1000
          ELSE hist.timers[k].after = 1

C28_Witness ==
    /\ context.remainingTimeInMillis = 900000
    /\ hist.timers = <<[delay |-> 899000, after |-> 899000]>>
    /\ calls["createFunction"] = 1
    /\ order = <<"timeout">>

\* C29: the content-length header equals the number of bytes of the serialized
\* body that is written, for every body, also one with characters encoded in
\* more than one byte, and the content-type header is the empty string
C29_ContentLengthIsByteLength ==
    (wire # NoWire) =>
        /\ wire.headers.contentLength = wire.written
        /\ wire.headers.contentType = ""

\* the last four elements of a sequence
Tail4(seq) == SubSeq(seq, Len(seq) - 3, Len(seq))

\* C30: the Reason of every response is a message followed by " | ", the
\* pointer "Full error" (FAILED) or "Details" (SUCCESS), " in CloudWatch " and
\* the log stream name of the invocation's own context
C30_ReasonNamesLogStream ==
    [][Sends =>
          /\ Len(NewBody.Reason) >= 5
          /\ Tail4(NewBody.Reason) =
                 <<" | ",
                   IF NewBody.Status = "FAILED" THEN "Full error" ELSE "Details",
                   " in CloudWatch ", context.logStreamName>>]_vars

C30_Witness ==
    /\ context.logStreamName = "2026/11/04/[$LATEST]other"
    /\ Len(requests) = 2
    /\ requests[1].body.Reason =
           <<"Function timed out", " | ", "Full error", " in CloudWatch ",
             "2026/11/04/[$LATEST]other">>
    /\ requests[2].body.Reason =
           <<"Update", " completed successfully", " | ", "Details", " in CloudWatch ",
             "2026/11/04/[$LATEST]other">>

\* the log entries a step emits
NewEntries == {logged'[i] : i \in (Len(logged) + 1)..Len(logged')}

\* C31: every FAILED response, whatever its cause, is preceded by an
\* error-level log entry emitted for that failure before its body is built
C31_FailureLoggedAtErrorLevel ==
    [][(Sends /\ NewBody.Status = "FAILED") =>
          \E entry \in NewEntries : entry.method = "error"]_vars

\* C32: reading value, before and changed of any key, held by the properties
\* or not, never fails and changes nothing but the result handed to the
\* reader: the event, the response data, the physical id, NoEcho, the timer
\* and everything else the invocation holds stay as they are; the value of a
\* key the properties do not hold is undefined
C32_ViewTotalReadOnly ==
    [][read' # read =>
          /\ read'.key \in Keys
          /\ read'.value = event.ResourceProperties[read'.key]
          /\ event.ResourceProperties[read'.key] = Undefined => read'.value = Undefined
          /\ read'.changed \in BOOLEAN
          /\ event' = event
          /\ responseData' = responseData
          /\ physicalResourceId' = physicalResourceId
          /\ noEcho' = noEcho
          /\ timeoutTimer' = timeoutTimer
          /\ uncaught' = uncaught
          /\ alive' = alive
          /\ requests' = requests
          /\ handlerState' = handlerState]_vars

C32_Witness ==
    /\ event.ResourceProperties["value"] = Undefined
    /\ read.key = "value"
    /\ read.value = Undefined
    /\ read.before = "1"
    /\ read.changed
    /\ handlerState = "pending"
    /\ timeoutTimer = "pending"
    /\ DOMAIN responseData = {"Version"}
    /\ physicalResourceId = "phys-1"

\* the severity of the message each method writes, in the order
\* error < warn < info < debug
severity(method) ==
    CASE method = "error" -> 0
      [] method = "warn" -> 1
      [] method = "info" -> 2
      [] method = "debug" -> 3
      [] method = "log" -> 2

\* the level a logger was constructed with
constructedWith(logger_) ==
    CASE logger_ = "StandardLogger(error)" -> 0
      [] logger_ = "StandardLogger(warn)" -> 1
      [] logger_ = "StandardLogger(info)" -> 2
      [] logger_ = "StandardLogger(debug)" -> 3

\* C33: a StandardLogger constructed with level L emits a message of level M
\* if and only if M is at most L in the order error < warn < info < debug,
\* also for L = error, and log() writes what info() writes
C33_LevelFilter ==
    [][/\ Len(hist'.called) > Len(hist.called) /\ Last(hist.passed) \in LevelLoggers =>
             /\ (logged' # logged) <=>
                    (severity(Last(hist'.called)) <= constructedWith(Last(hist.passed)))
             /\ (logged' # logged) =>
                    /\ logged' = Append(logged, Last(logged'))
                    /\ Last(logged').message = HandlerMessage
                    /\ Last(logged').method =
                           (IF Last(hist'.called) = "log" THEN "info"
                            ELSE Last(hist'.called))
       /\ \A i \in 1..Len(logged') :
             logged'[i].logger \in LevelLoggers =>
                 severity(logged'[i].method) <= constructedWith(logged'[i].logger)]_vars

C33_Witness ==
    /\ logger = "StandardLogger(error)"
    /\ hist.called = <<"warn">>
    /\ HandlerLogs = {}
    /\ handlerState = "rejected"
    /\ \E i \in 1..Len(logged) :
          logged[i].logger = "StandardLogger(error)" /\ logged[i].method = "error"

\* the queue the chained API selects for the event
SelectedQueue ==
    CASE event.RequestType = "Create" -> chain.createFunctions
      [] event.RequestType = "Update" -> chain.updateFunctions
      [] event.RequestType = "Delete" -> chain.deleteFunctions
      [] OTHER -> <<>>

SuccessSent == \E i \in 1..Len(requests) : requests[i].body.Status = "SUCCESS"

\* C34: in the chained API the functions registered for the event's request
\* type run one after the other in registration order, each started only
\* after the promise of the one before resolved and with the value it
\* resolved with (the first with the event); functions of the other queues
\* never run; SUCCESS is sent only after the last function resolved
C34_QueueRunsInOrder ==
    /\ Len(chain.started) <= Len(SelectedQueue)
    /\ Len(chain.started) <= Len(chain.resolved) + 1
    /\ \A k \in 1..Len(chain.started) :
          /\ chain.started[k].func = SelectedQueue[k]
          /\ chain.started[k].value =
                 (IF k = 1 THEN "event" ELSE chain.resolved[k - 1])
    /\ SuccessSent =>
          /\ Len(chain.resolved) = Len(SelectedQueue)
          /\ Len(chain.started) = Len(SelectedQueue)
          /\ event.RequestType \in KnownRequestTypes

C34_Witness ==
    /\ event.RequestType = "Update"
    /\ chain.createFunctions = <<1>>
    /\ chain.updateFunctions = <<2, 3>>
    /\ Len(chain.started) = 2
    /\ chain.started[1] = [queue |-> "updateFunctions", func |-> 2, value |-> "event"]
    /\ chain.started[2] = [queue |-> "updateFunctions", func |-> 3, value |-> "other"]
    /\ chain.resolved = <<"other", "event">>
    /\ SuccessSent

\* C35: in the chained API, once a function of the selected queue rejected or
\* threw, no later function of the queue is started, a FAILED response with
\* that error's message is sent and no SUCCESS response is sent (ResponseURL
\* parsing)
C35_QueueFailureBecomesFailed ==
    (handlerState = "rejected" /\ URLParses(event.ResponseURL)) =>
        /\ ~chain.running
        /\ Len(chain.started) = Len(chain.resolved) + 1
        /\ ~SuccessSent
        /\ \E i \in 1..Len(requests) :
              /\ requests[i].body.Status = "FAILED"
              /\ carries(requests[i], settled)

\* C36: the host callback is never invoked before a response has been handed
\* to the transport: every invocation of it answers a request initiated
\* earlier in the same invocation, so there are never more callback
\* invocations than requests the transport has completed or failed
C36_CallbackOnlyAfterPut ==
    /\ callbacks # <<>> => requests # <<>>
    /\ Len(callbacks) <=
           Cardinality(RequestsIn("responded")) + Cardinality(RequestsIn("errored"))

C36_Witness ==
    /\ handlerState = "rejected"
    /\ settled.kind = "string"
    /\ Len(requests) = 1
    /\ requests[1].body.Status = "FAILED"
    /\ requests[1].state = "errored"
    /\ Len(callbacks) = 1

\* the response of the timeout guard has been handed to the transport
TimedOutSent ==
    \E i \in 1..Len(requests) :
        requests[i].body.Status = "FAILED" /\ reasonOf(requests[i]) = timedOutMessage

\* C37: when the timeout guard has fired and its FAILED response has been
\* handed to the transport, the host callback is eventually invoked with the
\* error 'Function timed out' (in a process that keeps running)
C37_TimeoutReportedToHost ==
    TimedOutSent ~>
        \/ \E j \in 1..Len(callbacks) : callbacks[j].error = FunctionTimedOutError
        \/ ~alive

\* C38: a SUCCESS response is handed over only if the selected handler's
\* promise has fulfilled: never for an unexpected request type, for a handler
\* that rejected or threw, or for one that has not settled yet
C38_SuccessOnlyAfterFulfilment ==
    \A i \in 1..Len(requests) :
        requests[i].body.Status = "SUCCESS" =>
            /\ handlerState = "fulfilled"
            /\ settled = NoError
            /\ event.RequestType \in KnownRequestTypes
            /\ calls[Selected[event.RequestType]] = 1

C38_Witness ==
    /\ event.RequestType = "Create"
    /\ handlerState = "fulfilled"
    /\ Len(requests) = 1
    /\ requests[1].body.Status = "SUCCESS"
    /\ requests[1].state = "responded"
    /\ timeoutTimer = "cleared"

\* C39: whenever the event carries a ResponseURL, well-formed or not, the
\* invocation is eventually completed or failed towards the host: the host
\* callback is invoked (or the runtime has ended the process), given that the
\* timer fires and the transport completes or reports an error
C39_CallbackEventuallyInvoked ==
    (event.ResponseURL # Undefined) ~> (callbacks # <<>> \/ ~alive)

====
